---- MODULE Spec2Model ----
(***************************************************************************)
(* FreshBooks Speed Boost content script (src/content.js): the dropdown    *)
(* optimization engine, modelled as a state machine.                       *)
(*                                                                         *)
(* The host page is the environment: it creates, shows, hides and removes  *)
(* dropdown widgets, replaces their rows, and owns one typeahead input.    *)
(* The extension's callbacks (initial-detection poll, input timers, the    *)
(* debounced change watcher, the delegated click handler) each run to      *)
(* completion as one action, as they do on the page's single task queue.   *)
(***************************************************************************)
EXTENDS Integers, Sequences, FiniteSets, TLC

\* ------------------------------------------------------------------ bounds
MaxBatches == 2     \* row sets the host renders over a run (one per widget
                    \* instance, one per replacement of a widget's rows)
MaxControls == 4    \* controls surfaces the extension creates over a run
MaxTimers == 1      \* input timers (100 ms) pending at the same time
MaxItems == 120     \* largest row count of the page-partition specification

\* Row counts the host gives a widget: none, exactly one page, one row more
\* than a page. Larger counts are covered by SpecPages.
RowCounts == {0, 50, 51}

\* Text the input can hold: empty, a query.
InputValues == {<<>>, <<"a">>}

\* Text of the classifier specification: empty, blank, a query with and
\* without blanks around it.
InputTexts == {<<>>, <<" ">>, <<" ", " ">>, <<"a">>, <<" ", "a">>, <<"a", " ">>}

\* ------------------------------------------------------- program constants
pageSize == 50
maxChecks == 100

\* Poll counts at which the host may insert the input when it was absent at
\* load: after the polling has given up.
InputArrivals == {maxChecks}

NoElement == 0      \* null

VARIABLES
  dom,                    \* host: widget ids in document order
  dropdowns,              \* host: widget id -> [kind, shown, batch]
  rows,                   \* host: batch id -> sequence of rows' style signals
  input,                  \* host: the typeahead input [present, shown, value]
  controls,               \* the controls surfaces, in the order created
  allMerchants,           \* captured row handles <<batch, index>>
  currentPage,
  lastOptimizedDropdown,
  isInitialized,
  checkCount,
  isOptimizing,
  pollTimer,              \* a retry of initializePagination is scheduled
  evalTimers,             \* pending 100 ms timers of the input handlers
  debounceTimer,          \* pending 50 ms timers of the change watcher
  lastOp,                 \* history: what the last task did
  episode                 \* history: a type-then-clear episode of the user

vars == <<dom, dropdowns, rows, input, controls, allMerchants, currentPage, lastOptimizedDropdown, isInitialized,
          checkCount, isOptimizing, pollTimer, evalTimers, debounceTimer,
          lastOp, episode>>

domVars == <<dom, dropdowns, input>>
sessionVars == <<controls, allMerchants, currentPage,
                 lastOptimizedDropdown, isOptimizing>>
pollVars == <<isInitialized, checkCount, pollTimer>>

\* ------------------------------------------------------------ DOM queries
Range(f) == {f[i] : i \in DOMAIN f}

Min(S) == CHOOSE x \in S : \A y \in S : x <= y

Ceil(n, d) == (n + d - 1) \div d

InDocument(d) == d \in Range(dom)

\* element.offsetParent !== null
Displayed(d) == InDocument(d) /\ dropdowns[d].shown

\* The first widget of the document, in document order, of one of the kinds.
FirstOfKind(kinds) ==
  LET hits == {i \in DOMAIN dom : dropdowns[dom[i]].kind \in kinds}
  IN  IF hits = {} THEN NoElement ELSE dom[Min(hits)]

\* document.querySelector('[role="listbox"]')
QueryListbox == FirstOfKind({"listbox"})

\* document.querySelector('[role="listbox"], .ember-power-select-dropdown')
QueryDropdown == FirstOfKind({"listbox", "popup"})

\* dropdown.querySelectorAll('[role="option"]')
QueryOptions(d) ==
  LET b == dropdowns[d].batch IN [i \in 1..Len(rows[b]) |-> <<b, i>>]

ControlsInDocument(ctl) ==
  {c \in DOMAIN ctl : ctl[c].parent # NoElement /\ InDocument(ctl[c].parent)}

Position(d) == Min({i \in DOMAIN dom : dom[i] = d})

\* document.querySelector('.merchant-pagination-controls'): the first one in
\* document order (widgets in page order, children in the order appended).
QueryControls(ctl) ==
  LET in == ControlsInDocument(ctl)
  IN  IF in = {} THEN NoElement
      ELSE CHOOSE c \in in : \A e \in in :
             \/ Position(ctl[c].parent) < Position(ctl[e].parent)
             \/ Position(ctl[c].parent) = Position(ctl[e].parent) /\ c <= e

\* dropdown.querySelector('.merchant-pagination-controls')
HasControls(ctl, d) == \E c \in DOMAIN ctl : ctl[c].parent = d

\* A row counts as visible when neither suppression signal is set.
RowVisible(r) == r.display # "none" /\ r.visibility # "hidden"

\* String.prototype.trim on a sequence of characters.
RECURSIVE TrimLeft(_)
TrimLeft(v) == IF v # <<>> /\ Head(v) = " " THEN TrimLeft(Tail(v)) ELSE v

RECURSIVE TrimRight(_)
TrimRight(v) ==
  IF v # <<>> /\ v[Len(v)] = " " THEN TrimRight(SubSeq(v, 1, Len(v) - 1)) ELSE v

Trim(v) == TrimRight(TrimLeft(v))

\* ------------------------------------------------------ extension: helpers
\* The part of the state the extension's functions read and write.
Session ==
  [rows |-> rows, controls |-> controls, am |-> allMerchants, page |-> currentPage, lod |-> lastOptimizedDropdown,
   latch |-> isOptimizing, mutated |-> FALSE, threw |-> FALSE,
   did |-> "none"]

\* The keys of the WeakMap paginationCleanup: the controls surfaces that have
\* a release callback stored.
paginationCleanup(ctl) == {c \in DOMAIN ctl : ctl[c].registered}

\* Mutant: the text is not trimmed.
isUserFiltering_NoTrim ==
  /\ input.present
  /\ input.shown
  /\ Len(input.value) > 0

isUserFiltering ==
  /\ input.present
  /\ input.shown
  /\ Len(Trim(input.value)) > 0

\* const cleanup = paginationCleanup.get(ui); if (cleanup) cleanup();
\* ui.remove(); paginationCleanup.delete(ui);
ReleaseAndRemove(s, c) ==
  LET released ==
        IF c \in paginationCleanup(s.controls)
        THEN [s.controls[c] EXCEPT !.listening = FALSE, !.releases = @ + 1]
        ELSE s.controls[c]
  IN  [s EXCEPT !.controls[c] = [released EXCEPT !.parent = NoElement,
                                                 !.registered = FALSE],
                !.mutated = TRUE]

\* Mutant: the existing controls surface is left in the page.
KeepExistingControls(s) == s

RemoveExistingControls(s) ==
  LET existing == QueryControls(s.controls)
  IN  IF existing # NoElement THEN ReleaseAndRemove(s, existing) ELSE s

\* Mutant: the page count rounded down.
totalPages_Floor(n) == n \div pageSize

totalPages(n) == Ceil(n, pageSize)

\* Mutant: the first row of the page is left out.
InPage_OffByOne(idx, page) ==
  LET startIdx == page * pageSize
      endIdx == startIdx + pageSize
  IN  idx > startIdx /\ idx < endIdx

\* idx >= startIdx && idx < endIdx, idx counted from 0
InPage(idx, page) ==
  LET startIdx == page * pageSize
      endIdx == startIdx + pageSize
  IN  idx >= startIdx /\ idx < endIdx

ShownStyle == [display |-> "", visibility |-> "visible"]

\* Mutant: hiding a row leaves its accessibility visibility alone.
HiddenStyle_DisplayOnly == [display |-> "none", visibility |-> "visible"]

HiddenStyle == [display |-> "none", visibility |-> "hidden"]

\* A row element without a style object (item.style is undefined): a write
\* to item.style.display throws a TypeError.
NoStyle == [display |-> "undefined", visibility |-> "undefined"]

\* Mutant: the "already exists" check is missing.
addPaginationUI_NoGuard(s, dropdownElement) ==
    LET total == totalPages(Len(s.am))
        container ==
          [parent |-> dropdownElement, listening |-> TRUE, releases |-> 0,
           registered |-> TRUE, page |-> s.page, total |-> total,
           prevDisabled |-> (s.page = 0),
           nextDisabled |-> (s.page = total - 1)]
    IN  [s EXCEPT !.controls = Append(@, container),
                  !.mutated = @ \/ dropdownElement # NoElement]

\* Mutant: the container is rendered as one more option row of the widget.
addPaginationUI_AsRow(s, dropdownElement) ==
  IF QueryControls(s.controls) # NoElement THEN s
  ELSE
    LET total == totalPages(Len(s.am))
        container ==
          [parent |-> dropdownElement, listening |-> TRUE, releases |-> 0,
           registered |-> TRUE, page |-> s.page, total |-> total,
           prevDisabled |-> (s.page = 0),
           nextDisabled |-> (s.page = total - 1)]
        b == IF dropdownElement = NoElement THEN 0
             ELSE dropdowns[dropdownElement].batch
    IN  [s EXCEPT !.controls = Append(@, container),
                  !.rows = [a \in DOMAIN s.rows |->
                              IF a = b THEN Append(s.rows[a], ShownStyle)
                              ELSE s.rows[a]],
                  !.mutated = @ \/ dropdownElement # NoElement]

addPaginationUI(s, dropdownElement) ==
  IF QueryControls(s.controls) # NoElement THEN s
  ELSE
    LET total == totalPages(Len(s.am))
        container ==
          [parent |-> dropdownElement, listening |-> TRUE, releases |-> 0,
           registered |-> TRUE, page |-> s.page, total |-> total,
           prevDisabled |-> (s.page = 0),
           nextDisabled |-> (s.page = total - 1)]
    IN  [s EXCEPT !.controls = Append(@, container),
                  !.mutated = @ \/ dropdownElement # NoElement]

\* Position of row handle h in the captured collection (0 when absent).
IndexIn(am, h) ==
  IF h[2] <= Len(am) /\ am[h[2]] = h THEN h[2]
  ELSE IF \E k \in DOMAIN am : am[k] = h
       THEN CHOOSE k \in DOMAIN am : am[k] = h
       ELSE 0

\* items.forEach((item, idx) => { item.style.display = ...; ... }):
\* styles[idx] is the style written to the item at index idx (from 0). The
\* loop stops at the first item without a style object, where the write
\* throws; the items before it have been written.
SetItemStyle(s, items, styles) ==
  LET touched == {h[1] : h \in Range(items)}
      broken == {k \in DOMAIN items : s.rows[items[k][1]][items[k][2]] = NoStyle}
      stop == IF broken = {} THEN Len(items) + 1 ELSE Min(broken)
  IN  [s EXCEPT !.rows =
         [b \in DOMAIN s.rows |->
            IF b \notin touched THEN s.rows[b]
            ELSE [i \in DOMAIN s.rows[b] |->
                    LET k == IndexIn(items, <<b, i>>)
                    IN  IF k = 0 \/ k >= stop THEN s.rows[b][i]
                        ELSE styles[k - 1]]],
                !.threw = (broken # {})]

\* allMerchants.forEach((item, idx) => ...)
ApplyPage(s) ==
  SetItemStyle(s, s.am,
               [idx \in 0..(Len(s.am) - 1) |->
                  IF InPage(idx, s.page) THEN ShownStyle ELSE HiddenStyle])

limitDisplayedItems(s) ==
  LET styled == ApplyPage(s)
      paged == RemoveExistingControls(styled)
  IN  IF styled.threw THEN styled
      ELSE IF Len(paged.am) > pageSize
      THEN addPaginationUI(paged, QueryListbox)
      ELSE paged

\* Mutant: the teardown releases the controls surface created last instead
\* of looking one up in the document.
cleanupDropdown_NoLookup(s) ==
  LET t == [s EXCEPT !.am = <<>>, !.lod = NoElement, !.page = 0,
                     !.did = "cleanup"]
  IN  IF Len(s.controls) > 0 THEN ReleaseAndRemove(t, Len(s.controls)) ELSE t

cleanupDropdown(s) ==
  RemoveExistingControls([s EXCEPT !.am = <<>>, !.lod = NoElement, !.page = 0,
                                   !.did = "cleanup"])

\* Mutant: the rows are not shown again.
ShowAll_Nothing(s, items) == s

\* items.forEach(item => { display = ''; visibility = 'visible' })
ShowAll(s, items) ==
  SetItemStyle(s, items, [idx \in 0..(Len(items) - 1) |-> ShownStyle])

\* Mutant: the already-optimized check is missing.
optimizeDropdown_NoSameCheck(s) ==
  LET dropdown == QueryDropdown
      items == QueryOptions(dropdown)
  IN  IF s.latch THEN [s EXCEPT !.did = "skip"]
      ELSE IF dropdown = NoElement \/ ~Displayed(dropdown)
      THEN [s EXCEPT !.did = "skip"]
      ELSE IF Len(items) = 0 THEN [s EXCEPT !.did = "skip"]
      ELSE IF isUserFiltering
      THEN [ShowAll(RemoveExistingControls(s), items) EXCEPT !.did = "filter"]
      ELSE
        LET paged == limitDisplayedItems([s EXCEPT !.am = items])
            withUI == IF Len(paged.am) > pageSize
                      THEN addPaginationUI(paged, dropdown)
                      ELSE paged
        IN  [withUI EXCEPT !.lod = dropdown, !.latch = FALSE,
                           !.did = IF dropdown = s.lod
                                      /\ HasControls(s.controls, dropdown)
                                   THEN "same" ELSE "paginate"]

\* Mutant: the latch is left set when an exception leaves the callback.
Outcome_Latched(s, did) ==
  [s EXCEPT !.did = IF s.threw THEN "threw" ELSE did,
            !.latch = IF s.threw THEN TRUE ELSE @]

\* What a call has done: `did`, or "threw" when an exception left it.
Outcome(s, did) == [s EXCEPT !.did = IF s.threw THEN "threw" ELSE did]

\* Mutant: the latch is cleared after the try block instead of in finally.
optimizeDropdown_NoFinally(s) ==
  LET dropdown == QueryDropdown
      items == QueryOptions(dropdown)
  IN  IF s.latch THEN [s EXCEPT !.did = "skip"]
      ELSE IF dropdown = NoElement \/ ~Displayed(dropdown)
      THEN [s EXCEPT !.did = "skip"]
      ELSE IF Len(items) = 0 THEN [s EXCEPT !.did = "skip"]
      ELSE IF isUserFiltering
      THEN Outcome(ShowAll(RemoveExistingControls(s), items), "filter")
      ELSE IF dropdown = s.lod /\ HasControls(s.controls, dropdown)
      THEN [s EXCEPT !.did = "same"]
      ELSE
        LET paged == limitDisplayedItems([s EXCEPT !.am = items,
                                                   !.latch = TRUE])
            withUI == IF Len(paged.am) > pageSize
                      THEN addPaginationUI(paged, dropdown)
                      ELSE paged
        IN  IF paged.threw
            THEN Outcome(paged, "paginate")
            ELSE Outcome([withUI EXCEPT !.lod = dropdown, !.latch = FALSE],
                         "paginate")

\* Mutant: the filtering branch also drops the session.
optimizeDropdown_FilterForgets(s) ==
  LET dropdown == QueryDropdown
      items == QueryOptions(dropdown)
  IN  IF s.latch THEN [s EXCEPT !.did = "skip"]
      ELSE IF dropdown = NoElement \/ ~Displayed(dropdown)
      THEN [s EXCEPT !.did = "skip"]
      ELSE IF Len(items) = 0 THEN [s EXCEPT !.did = "skip"]
      ELSE IF isUserFiltering
      THEN Outcome(ShowAll(RemoveExistingControls(
             [s EXCEPT !.am = <<>>, !.page = 0, !.lod = NoElement]), items),
                   "filter")
      ELSE IF dropdown = s.lod /\ HasControls(s.controls, dropdown)
      THEN [s EXCEPT !.did = "same"]
      ELSE
        \* try { ... } finally { isOptimizing = false }: no catch clause
        LET paged == limitDisplayedItems([s EXCEPT !.am = items,
                                                   !.latch = TRUE])
            withUI == IF Len(paged.am) > pageSize
                      THEN addPaginationUI(paged, dropdown)
                      ELSE paged
        IN  IF paged.threw
            THEN Outcome([paged EXCEPT !.latch = FALSE], "paginate")
            ELSE Outcome([withUI EXCEPT !.lod = dropdown, !.latch = FALSE],
                         "paginate")

\* Mutant: a widget without rows is evaluated like any other.
optimizeDropdown_NoEmptyCheck(s) ==
  LET dropdown == QueryDropdown
      items == QueryOptions(dropdown)
  IN  IF s.latch THEN [s EXCEPT !.did = "skip"]
      ELSE IF dropdown = NoElement \/ ~Displayed(dropdown)
      THEN [s EXCEPT !.did = "skip"]
      ELSE IF isUserFiltering
      THEN Outcome(ShowAll(RemoveExistingControls(s), items), "filter")
      ELSE IF dropdown = s.lod /\ HasControls(s.controls, dropdown)
      THEN [s EXCEPT !.did = "same"]
      ELSE
        \* try { ... } finally { isOptimizing = false }: no catch clause
        LET paged == limitDisplayedItems([s EXCEPT !.am = items,
                                                   !.latch = TRUE])
            withUI == IF Len(paged.am) > pageSize
                      THEN addPaginationUI(paged, dropdown)
                      ELSE paged
        IN  IF paged.threw
            THEN Outcome([paged EXCEPT !.latch = FALSE], "paginate")
            ELSE Outcome([withUI EXCEPT !.lod = dropdown, !.latch = FALSE],
                         "paginate")

\* Mutant: an evaluation of the already optimized widget tears the session
\* down.
optimizeDropdown_Toggle(s) ==
  LET dropdown == QueryDropdown
      items == QueryOptions(dropdown)
  IN  IF s.latch THEN [s EXCEPT !.did = "skip"]
      ELSE IF dropdown = NoElement \/ ~Displayed(dropdown)
      THEN [s EXCEPT !.did = "skip"]
      ELSE IF Len(items) = 0 THEN [s EXCEPT !.did = "skip"]
      ELSE IF isUserFiltering
      THEN Outcome(ShowAll(RemoveExistingControls(s), items), "filter")
      ELSE IF dropdown = s.lod /\ HasControls(s.controls, dropdown)
      THEN cleanupDropdown(s)
      ELSE
        \* try { ... } finally { isOptimizing = false }: no catch clause
        LET paged == limitDisplayedItems([s EXCEPT !.am = items,
                                                   !.latch = TRUE])
            withUI == IF Len(paged.am) > pageSize
                      THEN addPaginationUI(paged, dropdown)
                      ELSE paged
        IN  IF paged.threw
            THEN Outcome([paged EXCEPT !.latch = FALSE], "paginate")
            ELSE Outcome([withUI EXCEPT !.lod = dropdown, !.latch = FALSE],
                         "paginate")

optimizeDropdown(s) ==
  LET dropdown == QueryDropdown
      items == QueryOptions(dropdown)
  IN  IF s.latch THEN [s EXCEPT !.did = "skip"]
      ELSE IF dropdown = NoElement \/ ~Displayed(dropdown)
      THEN [s EXCEPT !.did = "skip"]
      ELSE IF Len(items) = 0 THEN [s EXCEPT !.did = "skip"]
      ELSE IF isUserFiltering
      THEN Outcome(ShowAll(RemoveExistingControls(s), items), "filter")
      ELSE IF dropdown = s.lod /\ HasControls(s.controls, dropdown)
      THEN [s EXCEPT !.did = "same"]
      ELSE
        \* try { ... } finally { isOptimizing = false }: no catch clause
        LET paged == limitDisplayedItems([s EXCEPT !.am = items,
                                                   !.latch = TRUE])
            withUI == IF Len(paged.am) > pageSize
                      THEN addPaginationUI(paged, dropdown)
                      ELSE paged
        IN  IF paged.threw
            THEN Outcome([paged EXCEPT !.latch = FALSE], "paginate")
            ELSE Outcome([withUI EXCEPT !.lod = dropdown, !.latch = FALSE],
                         "paginate")

\* ------------------------------------------------------ garbage collection
\* A controls surface that is detached, released and unregistered can be
\* reached by nothing: it leaves the state. One outside the document cannot
\* be seen or clicked: what it displayed is forgotten.
Dead(c) ==
  /\ c.parent = NoElement
  /\ ~c.listening
  /\ ~c.registered
  /\ c.releases = 1

Collect(ctl, document) ==
  LET Forget(c) ==
        IF c.parent \in Range(document) THEN c
        ELSE [c EXCEPT !.page = 0, !.total = 0,
                       !.prevDisabled = FALSE, !.nextDisabled = FALSE]
      live == SelectSeq(ctl, LAMBDA c : ~Dead(c))
  IN  [i \in DOMAIN live |-> Forget(live[i])]

\* Rows that are neither in a widget of the document nor captured are
\* unreachable: their batch is emptied.
CollectRows(rws, document, dd, am) ==
  LET live == {dd[d].batch : d \in Range(document)} \cup {h[1] : h \in Range(am)}
  IN  [b \in DOMAIN rws |-> IF b \in live THEN rws[b] ELSE <<>>]

\* A widget removed from the page never returns.
Removed == [kind |-> "removed", shown |-> FALSE, batch |-> 0]

\* ---------------------------------------------------------------- history
NoEpisode == [phase |-> "none", page |-> 0]

\* The session pages the widget the user sees, with its controls rendered.
Browsing ==
  /\ lastOptimizedDropdown # NoElement
  /\ QueryDropdown = lastOptimizedDropdown
  /\ Displayed(lastOptimizedDropdown)
  /\ allMerchants = QueryOptions(lastOptimizedDropdown)
  /\ HasControls(controls, lastOptimizedDropdown)

OpName(did) == IF did \in {"skip", "ignored"} THEN "noop" ELSE did

\* The episode after a task of the extension that did `did`.
EpisodeAfter(did) ==
  IF episode.phase = "restored" THEN NoEpisode
  ELSE IF did \in {"cleanup", "closed", "page"} THEN NoEpisode
  ELSE IF episode.phase = "cleared"
  THEN IF did \in {"paginate", "same"}
       THEN [episode EXCEPT !.phase = "restored"]
       ELSE NoEpisode
  ELSE episode

\* The episode after the user has replaced the input's text by v.
EpisodeTyped(v) ==
  IF Len(Trim(v)) > 0
  THEN IF episode.phase = "none" /\ Browsing /\ ~isUserFiltering
       THEN [phase |-> "typed", page |-> currentPage]
       ELSE NoEpisode
  ELSE IF episode.phase = "typed"
       THEN [episode EXCEPT !.phase = "cleared"]
       ELSE NoEpisode

EpisodeKept == IF episode.phase = "restored" THEN NoEpisode ELSE episode

\* ------------------------------------------------------------------- Init
NoInput == [present |-> FALSE, shown |-> FALSE, value |-> <<>>]

Init ==
  /\ dom = <<>>
  /\ dropdowns = <<>>
  /\ rows = <<>>
  /\ controls = <<>>
  /\ allMerchants = <<>>
  /\ currentPage = 0
  /\ lastOptimizedDropdown = NoElement
  /\ isOptimizing = FALSE
  /\ evalTimers = 0
  /\ debounceTimer = 0
  /\ lastOp = "load"
  /\ episode = NoEpisode
  \* the script's first initializePagination call, with or without the input
  /\ \/ /\ input = [present |-> TRUE, shown |-> TRUE, value |-> <<>>]
        /\ isInitialized = TRUE
        /\ checkCount = 0
        /\ pollTimer = FALSE
     \/ /\ input = NoInput
        /\ isInitialized = FALSE
        /\ checkCount = 1
        /\ pollTimer = TRUE

\* -------------------------------------------------- committing a session
Commit(s) ==
  /\ Len(s.controls) <= MaxControls
  /\ rows' = CollectRows(s.rows, dom, dropdowns, s.am)
  /\ controls' = Collect(s.controls, dom)
  /\ allMerchants' = s.am
  /\ currentPage' = s.page
  /\ lastOptimizedDropdown' = s.lod
  /\ isOptimizing' = s.latch

\* Mutant: the pending timer is not cleared.
Notify_NoClear(changed, pending) == IF changed THEN pending + 1 ELSE pending

\* The MutationObserver callback runs after a task that changed the child
\* list of the page: if (debounceTimer) clearTimeout(debounceTimer);
\* debounceTimer = setTimeout(..., 50). `pending` timers of the watcher are
\* pending before the callback; the result is the number pending after it.
Notify(changed, pending) ==
  LET cleared == IF pending > 0 THEN 1 ELSE 0
  IN  IF changed THEN (pending - cleared) + 1 ELSE pending

\* ------------------------------------------------------------ host actions
FreshRows(n) == [i \in 1..n |-> [display |-> "", visibility |-> ""]]

\* The host renders a new widget instance, after the ones in the page.
HostOpen(kind, n) ==
  /\ input.present
  /\ Len(rows) < MaxBatches
  /\ rows' = Append(rows, FreshRows(n))
  /\ dropdowns' = Append(dropdowns,
                         [kind |-> kind, shown |-> TRUE, batch |-> Len(rows) + 1])
  /\ dom' = Append(dom, Len(dropdowns) + 1)
  /\ debounceTimer' = Notify(TRUE, debounceTimer)
  /\ lastOp' = "env"
  /\ episode' = NoEpisode
  /\ UNCHANGED <<input, evalTimers>>
  /\ UNCHANGED sessionVars
  /\ UNCHANGED pollVars

\* n rows of which row k has no style object.
RowsWithout(n, k) == [i \in 1..n |-> IF i = k THEN NoStyle ELSE FreshRows(n)[i]]

\* The host renders a widget one of whose rows is not a styled element.
HostOpenStyleless(n, k) ==
  /\ input.present
  /\ Len(rows) < MaxBatches
  /\ rows' = Append(rows, RowsWithout(n, k))
  /\ dropdowns' = Append(dropdowns,
                         [kind |-> "listbox", shown |-> TRUE,
                          batch |-> Len(rows) + 1])
  /\ dom' = Append(dom, Len(dropdowns) + 1)
  /\ debounceTimer' = Notify(TRUE, debounceTimer)
  /\ lastOp' = "env"
  /\ episode' = NoEpisode
  /\ UNCHANGED <<input, evalTimers>>
  /\ UNCHANGED sessionVars
  /\ UNCHANGED pollVars

\* The host hides or shows a widget by styling it: no child-list change.
HostHide(d) ==
  /\ Displayed(d)
  /\ dropdowns' = [dropdowns EXCEPT ![d].shown = FALSE]
  /\ lastOp' = "env"
  /\ episode' = NoEpisode
  /\ UNCHANGED <<dom, rows, input, evalTimers, debounceTimer>>
  /\ UNCHANGED sessionVars
  /\ UNCHANGED pollVars

HostShow(d) ==
  /\ InDocument(d)
  /\ ~dropdowns[d].shown
  /\ dropdowns' = [dropdowns EXCEPT ![d].shown = TRUE]
  /\ lastOp' = "env"
  /\ episode' = NoEpisode
  /\ UNCHANGED <<dom, rows, input, evalTimers, debounceTimer>>
  /\ UNCHANGED sessionVars
  /\ UNCHANGED pollVars

\* The host removes a widget from the page, with everything inside it.
HostRemove(d) ==
  /\ InDocument(d)
  /\ dom' = SelectSeq(dom, LAMBDA e : e # d)
  /\ dropdowns' = [dropdowns EXCEPT ![d] = Removed]
  /\ rows' = CollectRows(rows, dom', dropdowns', allMerchants)
  /\ controls' = Collect(controls, dom')
  /\ debounceTimer' = Notify(TRUE, debounceTimer)
  /\ lastOp' = "env"
  /\ episode' = NoEpisode
  /\ UNCHANGED <<input, evalTimers>>
  /\ UNCHANGED <<allMerchants, currentPage, lastOptimizedDropdown, isOptimizing>>
  /\ UNCHANGED pollVars

\* The host replaces the rows of a widget (a new result list).
HostSetRows(d, n) ==
  /\ InDocument(d)
  /\ Len(rows) < MaxBatches
  /\ dropdowns' = [dropdowns EXCEPT ![d].batch = Len(rows) + 1]
  /\ rows' = CollectRows(Append(rows, FreshRows(n)), dom, dropdowns',
                         allMerchants)
  /\ debounceTimer' = Notify(TRUE, debounceTimer)
  /\ lastOp' = "env"
  /\ episode' = NoEpisode
  /\ UNCHANGED <<dom, input, evalTimers>>
  /\ UNCHANGED sessionVars
  /\ UNCHANGED pollVars

\* Any other child-list change somewhere in the page.
HostMutation ==
  /\ debounceTimer' = Notify(TRUE, debounceTimer)
  /\ lastOp' = "env"
  /\ episode' = EpisodeKept
  /\ UNCHANGED <<dom, dropdowns, rows, input, evalTimers>>
  /\ UNCHANGED sessionVars
  /\ UNCHANGED pollVars

\* The host hides or shows the typeahead input by styling it.
HostToggleInput ==
  /\ input.present
  /\ input' = [input EXCEPT !.shown = ~@]
  /\ lastOp' = "env"
  /\ episode' = NoEpisode
  /\ UNCHANGED <<dom, dropdowns, rows, evalTimers, debounceTimer>>
  /\ UNCHANGED sessionVars
  /\ UNCHANGED pollVars

\* The host sets the text of the typeahead input from its own code: no input
\* event is dispatched.
HostSetValue(v) ==
  /\ input.present
  /\ input.value # v
  /\ input' = [input EXCEPT !.value = v]
  /\ lastOp' = "env"
  /\ episode' = NoEpisode
  /\ UNCHANGED <<dom, dropdowns, rows, evalTimers, debounceTimer>>
  /\ UNCHANGED sessionVars
  /\ UNCHANGED pollVars

\* The host inserts the typeahead input while the poll is still retrying or
\* after it has stopped.
HostInsertInput ==
  /\ ~input.present
  /\ input' = [present |-> TRUE, shown |-> TRUE, value |-> <<>>]
  /\ debounceTimer' = Notify(TRUE, debounceTimer)
  /\ lastOp' = "env"
  /\ episode' = NoEpisode
  /\ UNCHANGED <<dom, dropdowns, rows, evalTimers>>
  /\ UNCHANGED sessionVars
  /\ UNCHANGED pollVars

\* The host inserts the typeahead input after the script was loaded.
HostAddInput ==
  /\ ~input.present
  /\ checkCount \in InputArrivals
  /\ input' = [present |-> TRUE, shown |-> TRUE, value |-> <<>>]
  /\ debounceTimer' = Notify(TRUE, debounceTimer)
  /\ lastOp' = "env"
  /\ episode' = NoEpisode
  /\ UNCHANGED <<dom, dropdowns, rows, evalTimers>>
  /\ UNCHANGED sessionVars
  /\ UNCHANGED pollVars

\* ------------------------------------------------------------ user actions
\* handleInputClick, handleInputFocus: setTimeout(() => optimizeDropdown(), 100)
handleInputClick ==
  /\ isInitialized
  /\ input.shown
  /\ evalTimers < MaxTimers
  /\ evalTimers' = evalTimers + 1
  /\ lastOp' = "env"
  /\ episode' = EpisodeKept
  /\ UNCHANGED <<debounceTimer>>
  /\ UNCHANGED <<domVars, rows>>
  /\ UNCHANGED sessionVars
  /\ UNCHANGED pollVars

handleInputFocus ==
  /\ isInitialized
  /\ input.shown
  /\ evalTimers < MaxTimers
  /\ evalTimers' = evalTimers + 1
  /\ lastOp' = "env"
  /\ episode' = EpisodeKept
  /\ UNCHANGED <<debounceTimer>>
  /\ UNCHANGED <<domVars, rows>>
  /\ UNCHANGED sessionVars
  /\ UNCHANGED pollVars

\* Mutant: the input handler does not reset the page.
handleInputChange_NoReset(v) ==
  /\ input.present
  /\ input.shown
  /\ input.value # v
  /\ input' = [input EXCEPT !.value = v]
  /\ IF isInitialized
     THEN /\ evalTimers < MaxTimers
          /\ UNCHANGED currentPage
          /\ lastOptimizedDropdown' = NoElement
          /\ evalTimers' = evalTimers + 1
     ELSE UNCHANGED <<currentPage, lastOptimizedDropdown, evalTimers>>
  /\ lastOp' = "env"
  /\ episode' = EpisodeTyped(v)
  /\ UNCHANGED <<dom, dropdowns, rows, controls, allMerchants, isOptimizing,
                 debounceTimer>>
  /\ UNCHANGED pollVars

\* The user edits the text; the input event reaches handleInputChange when
\* the listeners are attached.
handleInputChange(v) ==
  /\ input.present
  /\ input.shown
  /\ input.value # v
  /\ input' = [input EXCEPT !.value = v]
  /\ IF isInitialized
     THEN /\ evalTimers < MaxTimers
          /\ currentPage' = 0
          /\ lastOptimizedDropdown' = NoElement
          /\ evalTimers' = evalTimers + 1
     ELSE UNCHANGED <<currentPage, lastOptimizedDropdown, evalTimers>>
  /\ lastOp' = "env"
  /\ episode' = EpisodeTyped(v)
  /\ UNCHANGED <<dom, dropdowns, rows, controls, allMerchants, isOptimizing,
                 debounceTimer>>
  /\ UNCHANGED pollVars

\* A click inside controls surface c, on one of its buttons or beside them.
handlePaginationClick(c, action) ==
  /\ c \in DOMAIN controls
  /\ controls[c].listening
  /\ Displayed(controls[c].parent)
  /\ LET disabled == \/ action = "prev" /\ controls[c].prevDisabled
                     \/ action = "next" /\ controls[c].nextDisabled
         total == totalPages(Len(allMerchants))
         s == Session
         t == IF action = "none" \/ disabled THEN [s EXCEPT !.did = "ignored"]
              ELSE IF action = "prev" /\ currentPage > 0
              THEN Outcome(limitDisplayedItems([s EXCEPT !.page = @ - 1]),
                           "page")
              ELSE IF action = "next" /\ currentPage < total - 1
              THEN Outcome(limitDisplayedItems([s EXCEPT !.page = @ + 1]),
                           "page")
              ELSE [s EXCEPT !.did = "ignored"]
     IN  /\ Commit(t)
         /\ debounceTimer' = Notify(t.mutated, debounceTimer)
         /\ lastOp' = OpName(t.did)
         /\ episode' = EpisodeAfter(t.did)
  /\ UNCHANGED <<evalTimers>>
  /\ UNCHANGED domVars
  /\ UNCHANGED pollVars

\* ----------------------------------------------------------- timer actions
\* Mutant: the retry is scheduled while the count is at most the budget.
initializePagination_OneMore ==
  /\ pollTimer
  /\ IF isInitialized
     THEN /\ pollTimer' = FALSE
          /\ UNCHANGED <<isInitialized, checkCount>>
     ELSE IF ~input.present
     THEN /\ checkCount' = checkCount + 1
          /\ pollTimer' = (checkCount + 1 <= maxChecks)
          /\ UNCHANGED isInitialized
     ELSE /\ isInitialized' = TRUE
          /\ pollTimer' = FALSE
          /\ UNCHANGED checkCount
  /\ lastOp' = "env"
  /\ episode' = EpisodeKept
  /\ UNCHANGED <<evalTimers, debounceTimer>>
  /\ UNCHANGED <<domVars, rows>>
  /\ UNCHANGED sessionVars

\* Mutant: the attempt that finds the input is counted too.
initializePagination_CountsSuccess ==
  /\ pollTimer
  /\ IF isInitialized
     THEN /\ pollTimer' = FALSE
          /\ UNCHANGED <<isInitialized, checkCount>>
     ELSE IF ~input.present
     THEN /\ checkCount' = checkCount + 1
          /\ pollTimer' = (checkCount + 1 < maxChecks)
          /\ UNCHANGED isInitialized
     ELSE /\ isInitialized' = TRUE
          /\ pollTimer' = FALSE
          /\ checkCount' = checkCount + 1
  /\ lastOp' = "env"
  /\ episode' = EpisodeKept
  /\ UNCHANGED <<evalTimers, debounceTimer>>
  /\ UNCHANGED <<domVars, rows>>
  /\ UNCHANGED sessionVars

\* initializePagination, run from its retry timer.
initializePagination ==
  /\ pollTimer
  /\ IF isInitialized
     THEN /\ pollTimer' = FALSE
          /\ UNCHANGED <<isInitialized, checkCount>>
     ELSE IF ~input.present
     THEN /\ checkCount' = checkCount + 1
          /\ pollTimer' = (checkCount + 1 < maxChecks)
          /\ UNCHANGED isInitialized
     ELSE /\ isInitialized' = TRUE
          /\ pollTimer' = FALSE
          /\ UNCHANGED checkCount
  /\ lastOp' = "env"
  /\ episode' = EpisodeKept
  /\ UNCHANGED <<evalTimers, debounceTimer>>
  /\ UNCHANGED <<domVars, rows>>
  /\ UNCHANGED sessionVars

\* One of the input handlers' 100 ms timers fires: optimizeDropdown().
EvaluationTimer ==
  /\ evalTimers > 0
  /\ evalTimers' = evalTimers - 1
  /\ LET t == optimizeDropdown(Session)
     IN  /\ Commit(t)
         /\ debounceTimer' = Notify(t.mutated, debounceTimer)
         /\ lastOp' = OpName(t.did)
         /\ episode' = EpisodeAfter(t.did)
  /\ UNCHANGED domVars
  /\ UNCHANGED pollVars

\* The body of the change watcher's debounced callback, run on session s.
debounced(s) ==
  LET dropdown == QueryListbox
  IN  IF dropdown # NoElement /\ Displayed(dropdown) /\ ~s.latch
      THEN optimizeDropdown(s)
      ELSE IF dropdown = NoElement \/ ~Displayed(dropdown)
      THEN IF s.lod # NoElement
           THEN cleanupDropdown(s)
           ELSE [s EXCEPT !.did = "closed"]
      ELSE [s EXCEPT !.did = "skip"]

\* The change watcher's debounced callback (setupMutationObserver).
setupMutationObserver ==
  /\ debounceTimer > 0
  /\ LET t == debounced(Session)
     IN  /\ Commit(t)
         /\ debounceTimer' = Notify(t.mutated, debounceTimer - 1)
         /\ lastOp' = OpName(t.did)
         /\ episode' = EpisodeAfter(t.did)
  /\ UNCHANGED <<evalTimers>>
  /\ UNCHANGED domVars
  /\ UNCHANGED pollVars

\* ------------------------------------------------------------------- Next
\* The host's widgets carry the listbox role.
Next ==
  \/ \E n \in RowCounts : HostOpen("listbox", n)
  \/ \E d \in DOMAIN dropdowns : HostHide(d)
  \/ \E d \in DOMAIN dropdowns : HostShow(d)
  \/ \E d \in DOMAIN dropdowns : HostRemove(d)
  \/ \E d \in DOMAIN dropdowns, n \in RowCounts : HostSetRows(d, n)
  \/ HostMutation
  \/ HostAddInput
  \/ handleInputClick
  \/ handleInputFocus
  \/ \E v \in InputValues : handleInputChange(v)
  \/ \E c \in DOMAIN controls, action \in {"prev", "next", "none"} :
       handlePaginationClick(c, action)
  \/ initializePagination
  \/ EvaluationTimer
  \/ setupMutationObserver

Spec == Init /\ [][Next]_vars

\* The fault specification: the text-entry control is present at load, and
\* the host renders widgets with and without a row that has no style object.
StylelessAt == {1, 26}

InitFault == Init /\ input.present

NextFault ==
  \/ \E n \in RowCounts : HostOpen("listbox", n)
  \/ \E k \in StylelessAt : HostOpenStyleless(pageSize + 1, k)
  \/ \E d \in DOMAIN dropdowns : HostRemove(d)
  \/ HostMutation
  \/ handleInputClick
  \/ \E v \in InputValues : handleInputChange(v)
  \/ \E c \in DOMAIN controls, action \in {"prev", "next", "none"} :
       handlePaginationClick(c, action)
  \/ EvaluationTimer
  \/ setupMutationObserver

SpecFault == InitFault /\ [][NextFault]_vars

\* The classifier specification: the text-entry control is shown or hidden
\* and holds any of the texts, with and without a widget in the page.
NextClassify ==
  \/ \E n \in RowCounts : HostOpen("listbox", n)
  \/ \E d \in DOMAIN dropdowns : HostRemove(d)
  \/ HostToggleInput
  \/ \E v \in InputTexts : HostSetValue(v)
  \/ HostMutation
  \/ handleInputClick
  \/ EvaluationTimer
  \/ setupMutationObserver

SpecClassify == InitFault /\ [][NextClassify]_vars

\* The polling specification: the text-entry control is there at load, or the
\* host inserts it at any later time, or never.
NextPoll ==
  \/ HostInsertInput
  \/ HostMutation
  \/ initializePagination
  \/ handleInputClick
  \/ EvaluationTimer
  \/ setupMutationObserver

SpecPoll == Init /\ [][NextPoll]_vars

\* The host also renders widgets that carry only the dropdown class.
NextPopup ==
  \/ Next
  \/ \E n \in RowCounts : HostOpen("popup", n)

SpecPopup == Init /\ [][NextPopup]_vars

\* The retention specification: the classifier specification with the page
\* clicks of the user.
NextRetain ==
  \/ NextClassify
  \/ \E c \in DOMAIN controls, action \in {"prev", "next", "none"} :
       handlePaginationClick(c, action)

SpecRetain == InitFault /\ [][NextRetain]_vars

\* ===================================================================
\* Properties
\* ===================================================================
CapturedRow(k) == rows[allMerchants[k][1]][allMerchants[k][2]]

\* [page*P, min((page+1)*P, N)), indexes counted from 0
WindowOf(page, n) ==
  LET last == IF (page + 1) * pageSize < n THEN (page + 1) * pageSize ELSE n
  IN  {i \in 0..(n - 1) : page * pageSize <= i /\ i < last}

VisibleCaptured == {k - 1 : k \in {j \in DOMAIN allMerchants : RowVisible(CapturedRow(j))}}

ControlsPresent == ControlsInDocument(controls)

\* C1: after a page change and after an evaluation that applies pagination,
\* exactly the captured rows of the current page's window are visible and
\* every other captured row is hidden.
C1_WindowAfterPaging ==
  lastOp \in {"page", "paginate"} =>
    VisibleCaptured = WindowOf(currentPage, Len(allMerchants))

C1_Witness ==
  /\ lastOp = "page"
  /\ currentPage = 1
  /\ Len(allMerchants) = 51
  /\ VisibleCaptured = {50}

\* C2: whenever the captured collection is non-empty, the current page is a
\* page of it: 0 <= page < ceil(N/P).
C2_PageInRange ==
  Len(allMerchants) > 0 =>
    0 <= currentPage /\ currentPage < Ceil(Len(allMerchants), pageSize)

\* The page-partition specification: the host has rendered one widget with N
\* rows, 0 <= N <= MaxItems; the extension evaluates it and the user pages
\* through it.
InitPages ==
  /\ \E n \in 0..MaxItems : rows = <<FreshRows(n)>>
  /\ dom = <<1>>
  /\ dropdowns = <<[kind |-> "listbox", shown |-> TRUE, batch |-> 1]>>
  /\ input = [present |-> TRUE, shown |-> TRUE, value |-> <<>>]
  /\ controls = <<>>
  /\ allMerchants = <<>>
  /\ currentPage = 0
  /\ lastOptimizedDropdown = NoElement
  /\ isInitialized = TRUE
  /\ checkCount = 0
  /\ isOptimizing = FALSE
  /\ pollTimer = FALSE
  /\ evalTimers = 0
  /\ debounceTimer = 1
  /\ lastOp = "env"
  /\ episode = NoEpisode

NextPages ==
  \/ setupMutationObserver
  \/ \E c \in DOMAIN controls, action \in {"prev", "next"} :
       handlePaginationClick(c, action)

SpecPages == InitPages /\ [][NextPages]_vars

\* ceil(n/p) as the least t with t*p >= n
CeilOf(n, p) == CHOOSE t \in 0..n : t * p >= n /\ \A u \in 0..n : u * p >= n => t <= u

\* The rows the program shows on page k of n rows.
ProgramWindow(k, n) == {i \in 0..(n - 1) : InPage(i, k)}

Partition(n, pages) ==
  /\ \A k \in 0..(pages - 1) : ProgramWindow(k, n) = WindowOf(k, n)
  /\ \A j, k \in 0..(pages - 1) :
       j # k => ProgramWindow(j, n) \cap ProgramWindow(k, n) = {}
  /\ UNION {ProgramWindow(k, n) : k \in 0..(pages - 1)} = 0..(n - 1)

WidgetRows == Len(rows[1])

C4_AtMostOneControls == Cardinality(ControlsPresent) <= 1

C4_Witness ==
  /\ lastOp = "page"
  /\ Cardinality(ControlsPresent) = 1
  /\ Len(controls) > 1

\* C5: after an evaluation that finds the widget visible and the user
\* filtering, every row of the widget is visible.
C5_FilteringShowsAllRows ==
  lastOp = "filter" =>
    \A h \in Range(QueryOptions(QueryDropdown)) : RowVisible(rows[h[1]][h[2]])

C5_Witness ==
  /\ lastOp = "filter"
  /\ currentPage = 1
  /\ allMerchants = QueryOptions(QueryDropdown)
  /\ Len(allMerchants) = 51

Idle ==
  /\ allMerchants = <<>>
  /\ lastOptimizedDropdown = NoElement
  /\ currentPage = 0
  /\ ControlsPresent = {}

\* No widget is displayed in the page: each one is hidden or removed.
WidgetClosed == \A d \in Range(dom) : ~dropdowns[d].shown

\* The change watcher's callback has run and found the widget closed.
CloseObserved == lastOp \in {"closed", "cleanup"} /\ WidgetClosed

\* C8: once the change watcher's evaluation has run with the widget hidden or
\* removed, the session is gone: empty collection, null widget handle, page 0,
\* no controls.
C8_ClosedMeansIdle == CloseObserved => Idle

\* C9: every controls surface that was attached has had its release callback
\* invoked exactly once by the time the change watcher has handled the
\* widget's closing.
C9_ReleasedOnClose ==
  /\ \A c \in DOMAIN controls : controls[c].releases <= 1
  /\ CloseObserved =>
       \A c \in DOMAIN controls :
         controls[c].parent # NoElement => controls[c].releases = 1

\* C10: a capture that follows the closing of the session's widget (also one
\* the change watcher has not observed yet) starts at page 0 with the rows
\* [0, min(P, N)) of the new collection visible.
SessionWidgetClosed ==
  /\ lastOptimizedDropdown # NoElement
  /\ ~Displayed(lastOptimizedDropdown)

C10_ReopenStartsAtPageZero ==
  [][(SessionWidgetClosed /\ lastOp' = "paginate") =>
       /\ currentPage' = 0
       /\ VisibleCaptured' = WindowOf(0, Len(allMerchants'))]_vars

\* C11: teardown is idempotent. From every reachable state, cleanupDropdown
\* applied twice leaves what it leaves when applied once; applied in the Idle
\* state it changes nothing; no exception leaves it.
C11_TeardownIdempotent ==
  LET once == cleanupDropdown(Session)
      twice == cleanupDropdown(once)
  IN  /\ twice = once
      /\ ~once.threw
      /\ Idle => /\ once.rows = rows
                 /\ once.controls = controls
                 /\ once.am = allMerchants
                 /\ once.page = currentPage
                 /\ once.lod = lastOptimizedDropdown
                 /\ once.latch = isOptimizing
                 /\ ~once.mutated

\* A session on page 1 with its controls in the page: the first teardown
\* changes every part of it.
C11_Witness ==
  /\ currentPage = 1
  /\ lastOptimizedDropdown # NoElement
  /\ ControlsPresent # {}
  /\ cleanupDropdown(Session).controls # controls
  /\ cleanupDropdown(Session).am # allMerchants

\* C12: after an evaluation that applies pagination to a widget with N <= P
\* rows, no controls surface is present and all N captured rows are visible.
C12_SinglePageAllVisible ==
  (lastOp = "paginate" /\ Len(allMerchants) <= pageSize) =>
    /\ ControlsPresent = {}
    /\ VisibleCaptured = 0..(Len(allMerchants) - 1)

\* C13: for every controls surface present in the page, Previous is disabled
\* exactly when the current page is 0 and Next is disabled exactly when the
\* current page is the last one.
C13_DisabledFlags ==
  \A c \in ControlsPresent :
    /\ controls[c].prevDisabled <=> (currentPage = 0)
    /\ controls[c].nextDisabled <=>
         (currentPage = totalPages(Len(allMerchants)) - 1)

\* The recorded widget is the one an evaluation finds, it is displayed, it
\* holds a controls surface and the user is not filtering.
SameWidgetRendered ==
  /\ lastOptimizedDropdown # NoElement
  /\ QueryDropdown = lastOptimizedDropdown
  /\ Displayed(lastOptimizedDropdown)
  /\ HasControls(controls, lastOptimizedDropdown)
  /\ ~isUserFiltering

\* A task that calls optimizeDropdown: an input timer, or the change watcher
\* when it finds a displayed listbox.
Evaluation ==
  \/ EvaluationTimer
  \/ setupMutationObserver /\ Displayed(QueryListbox)

\* C14: an evaluation that runs while the session pages the same widget
\* instance and that widget holds a controls surface changes nothing: the
\* captured collection, the current page, the rows' visibility, the widget
\* handle and the controls are unchanged, and the page is not mutated (no
\* change notification follows).
C14_SameWidgetNoOp ==
  [][(SameWidgetRendered /\ Evaluation) =>
       /\ UNCHANGED <<allMerchants, currentPage, rows, controls,
                      lastOptimizedDropdown, isOptimizing>>
       /\ debounceTimer' = IF EvaluationTimer THEN debounceTimer
                          ELSE debounceTimer - 1]_vars

C14_Witness ==
  /\ lastOp = "same"
  /\ SameWidgetRendered
  /\ currentPage = 1
  /\ Len(rows[dropdowns[lastOptimizedDropdown].batch]) = 50
  /\ Len(allMerchants) = 51

\* The rows of the widget an evaluation finds that are visible.
VisibleInWidget ==
  LET items == QueryOptions(QueryDropdown)
  IN  {k \in DOMAIN items : RowVisible(rows[items[k][1]][items[k][2]])}

\* C15: after every evaluation that finds the widget visible and the user not
\* filtering, at most P of the rows present in the widget are visible.
C15_AtMostPageVisible ==
  lastOp \in {"paginate", "same"} => Cardinality(VisibleInWidget) <= pageSize

\* A task of the host that inserts, hides, shows or removes a widget or
\* replaces its rows. Every other task is one of the extension: a timer
\* callback, the change watcher's callback, a listener of the text-entry
\* control or the controls' click listener (or a host change elsewhere in the
\* page).
HostWidgetTask ==
  \/ \E n \in RowCounts : HostOpen("listbox", n)
  \/ \E d \in DOMAIN dropdowns : HostHide(d)
  \/ \E d \in DOMAIN dropdowns : HostShow(d)
  \/ \E d \in DOMAIN dropdowns : HostRemove(d)
  \/ \E d \in DOMAIN dropdowns, n \in RowCounts : HostSetRows(d, n)

\* Every widget of the page holds the same sequence of rows as before.
RowsInPlace ==
  /\ dom' = dom
  /\ dropdowns' = dropdowns
  /\ \A d \in Range(dom) :
       Len(rows'[dropdowns[d].batch]) = Len(rows[dropdowns[d].batch])

\* C16: no task of the extension removes, adds or reorders rows of a widget:
\* every step that is not a widget task of the host leaves every widget of
\* the page with the same sequence of rows.
C16_RowsKept == [][RowsInPlace \/ HostWidgetTask]_vars

C16_Witness ==
  /\ lastOp = "page"
  /\ currentPage = 1
  /\ lastOptimizedDropdown # NoElement
  /\ InDocument(lastOptimizedDropdown)
  /\ Len(rows[dropdowns[lastOptimizedDropdown].batch]) = 51
  /\ VisibleInWidget = {51}

\* The widget an evaluation finds is displayed with more than P rows and the
\* user is not filtering.
OpenLarge ==
  /\ QueryDropdown # NoElement
  /\ Displayed(QueryDropdown)
  /\ Len(QueryOptions(QueryDropdown)) > pageSize
  /\ ~isUserFiltering

\* A controls surface is present and exactly the widget's rows of the current
\* page's window are visible.
Paginated ==
  /\ ControlsPresent # {}
  /\ VisibleInWidget =
       {i + 1 : i \in WindowOf(currentPage, Len(QueryOptions(QueryDropdown)))}

\* Every timer of the extension has fired: nothing runs until the host or the
\* user acts again.
AtRest == ~pollTimer /\ evalTimers = 0 /\ debounceTimer = 0

\* C17: once the widget is visible with N > P rows, the user is not filtering
\* and every pending timer has fired, the widget is paginated: a controls
\* surface is present and exactly the rows of the current page's window are
\* visible. (With the host idle the extension runs nothing more from such a
\* state, so a state at rest that is not paginated stays so.)
C17_PaginatedAtRest == (AtRest /\ OpenLarge) => Paginated

\* C18: no entry point of the extension lets an exception escape to the host
\* page: no task of the extension ends with an exception leaving its
\* callback.
C18_NoEscape == lastOp # "threw"

\* document.querySelector calls made by initializePagination so far: one per
\* failed attempt (each increments checkCount) and the one that found the
\* control.
Lookups == checkCount + (IF isInitialized THEN 1 ELSE 0)

PollStopped == isInitialized \/ checkCount >= maxChecks

\* C19: the initial-detection poll makes at most maxChecks lookups, and once
\* the text-entry control is found or the budget is used up no poll is
\* pending and none runs again.
C19_PollBudget ==
  [][/\ Lookups' <= maxChecks
     /\ PollStopped' => ~pollTimer'
     /\ PollStopped => UNCHANGED pollVars]_vars

\* The last attempt of the budget finds the control.
C19_Witness ==
  /\ isInitialized
  /\ checkCount = maxChecks - 1
  /\ ~pollTimer
  /\ evalTimers > 0

\* A task of the host that changes the child list of the page.
HostChange ==
  \/ \E n \in RowCounts : HostOpen("listbox", n)
  \/ \E d \in DOMAIN dropdowns : HostRemove(d)
  \/ \E d \in DOMAIN dropdowns, n \in RowCounts : HostSetRows(d, n)
  \/ HostMutation
  \/ HostAddInput

\* C20: at most one evaluation of the change watcher is pending at any time,
\* and after every notification, also one that arrives while an evaluation is
\* pending, exactly one is pending: a burst of notifications ends with one
\* evaluation to run.
C20_SinglePendingEvaluation ==
  [][/\ debounceTimer' <= 1
     /\ debounceTimer' = 1 \/ ~HostChange]_vars

\* Two widgets were inserted one after the other with no evaluation in
\* between (no row has been written), and one evaluation is pending.
C20_Witness ==
  /\ lastOp = "env"
  /\ Len(dom) = 2
  /\ \A d \in Range(dom) :
       /\ Len(rows[dropdowns[d].batch]) > pageSize
       /\ \A r \in Range(rows[dropdowns[d].batch]) : r = FreshRows(1)[1]
  /\ allMerchants = <<>>
  /\ debounceTimer = 1

\* A text-entry control is displayed and its text has a character that is not
\* a blank.
VisibleNonBlankText ==
  /\ input.present
  /\ input.shown
  /\ \E i \in DOMAIN input.value : input.value[i] # " "

C22_ControlsMatchRows ==
  \A c \in ControlsPresent :
    /\ controls[c].page = currentPage
    /\ controls[c].total = totalPages(Len(allMerchants))
    /\ controls[c].prevDisabled <=> (currentPage = 0)
    /\ controls[c].nextDisabled <=> (currentPage = controls[c].total - 1)
    /\ VisibleCaptured = WindowOf(currentPage, Len(allMerchants))

\* What C23 says of a click on button `action` of controls surface c.
ClickMovesPage(c, action) ==
  LET enabled == \/ action = "next" /\ ~controls[c].nextDisabled
                 \/ action = "prev" /\ ~controls[c].prevDisabled
  IN  IF enabled
      THEN /\ currentPage' = IF action = "next" THEN currentPage + 1
                             ELSE currentPage - 1
           /\ Cardinality(ControlsInDocument(controls')) = 1
           /\ \A e \in DOMAIN controls' : controls'[e].releases = 0
      ELSE UNCHANGED <<currentPage, rows, controls>>

\* C23: a click on the enabled Next moves the page from k to k+1, a click on
\* the enabled Previous from k to k-1, and a click on a disabled button or
\* beside the buttons changes neither the page nor the rows nor the controls;
\* after a page-changing click the old controls surface is released and gone
\* and exactly one new one is present.
C23_ClickEffect ==
  [][\A c \in DOMAIN controls, action \in {"prev", "next", "none"} :
       (evalTimers' = evalTimers /\ handlePaginationClick(c, action))
         => ClickMovesPage(c, action)]_vars

\* C24: the re-entrancy latch is false after every evaluation, whether it
\* completed or failed part-way through its side effects: it is false in
\* every state between tasks.
C24_LatchCleared == ~isOptimizing

\* An evaluation has failed after it captured the rows and wrote some.
C24_Witness ==
  /\ lastOp = "threw"
  /\ ~isOptimizing
  /\ Len(allMerchants) > pageSize
  /\ \E k \in DOMAIN allMerchants : CapturedRow(k) = ShownStyle
  /\ lastOptimizedDropdown = NoElement

\* C25: when one captured row has no style object, applying a page skips that
\* row and still writes every other captured row according to the page's
\* window: after every evaluation that captured rows, each captured row that
\* has a style object is visible exactly when its index is in the window.
C25_BrokenRowSkipped ==
  (lastOp \in {"paginate", "page", "threw"} /\ allMerchants # <<>>) =>
    \A k \in DOMAIN allMerchants :
      CapturedRow(k) # NoStyle =>
        (RowVisible(CapturedRow(k)) <=>
           (k - 1) \in WindowOf(currentPage, Len(allMerchants)))

\* C26: rendering the controls when there is no element to attach them to
\* does nothing: no surface outside every element carries a click listener
\* or a registry entry, and the rendering throws nothing.
C26_NoHostNoControls ==
  /\ \A c \in DOMAIN controls :
       controls[c].parent = NoElement =>
         ~controls[c].listening /\ ~controls[c].registered
  /\ lastOp # "threw"

\* C27: in every state, every row with a style object has the display
\* suppression set if and only if the accessibility-visibility suppression
\* is set; this covers every row the extension has written, also the rows
\* written before a write to a later row failed.
C27_SignalsAgree ==
  \A b \in DOMAIN rows : \A i \in DOMAIN rows[b] :
    rows[b][i] # NoStyle =>
      (rows[b][i].display = "none" <=> rows[b][i].visibility = "hidden")

\* A page has been applied: captured rows are written shown and written
\* hidden.
C27_Witness ==
  /\ lastOp = "paginate"
  /\ \E k \in DOMAIN allMerchants : CapturedRow(k) = ShownStyle
  /\ \E k \in DOMAIN allMerchants : CapturedRow(k) = HiddenStyle

\* The last task was the extension's and left a session recorded on a
\* widget that is open.
SessionOpen ==
  /\ lastOp \in {"paginate", "same", "page"}
  /\ lastOptimizedDropdown # NoElement
  /\ InDocument(lastOptimizedDropdown)
  /\ Displayed(lastOptimizedDropdown)

\* C28: rows are captured once per session: while a session is recorded on
\* an open widget, the next task does not capture the rows of that widget
\* again.
C28_CapturedOnce ==
  [][(SessionOpen /\ lastOptimizedDropdown' = lastOptimizedDropdown)
       => lastOp' # "paginate"]_vars

\* C29: when an evaluation finds a visible widget other than the recorded
\* one while a session is still recorded, the prior session is torn down
\* before the new one is created: the old controls are released and removed,
\* and the new session starts at page 0 with the rows of the new widget.
C29_SwitchTearsDown ==
  [][(/\ lastOptimizedDropdown # NoElement
      /\ lastOptimizedDropdown' # NoElement
      /\ lastOptimizedDropdown' # lastOptimizedDropdown)
       => /\ currentPage' = 0
          /\ allMerchants' = QueryOptions(lastOptimizedDropdown')
          /\ \A c \in DOMAIN controls' :
               controls'[c].parent # lastOptimizedDropdown]_vars

\* C30: the change watcher tears a session down only when its widget is not
\* visible: no teardown happens while the recorded widget is in the page and
\* displayed, whether the widget carries the listbox role or only the popup
\* class.
C30_NoTeardownWhileVisible ==
  [][(/\ lastOp' = "cleanup"
      /\ lastOptimizedDropdown # NoElement)
       => ~(InDocument(lastOptimizedDropdown) /\ Displayed(lastOptimizedDropdown))]_vars

\* C31: the evaluation that finds the user filtering leaves the captured
\* rows, the current page and the widget handle as they were; of the page it
\* changes only the controls and the suppression of rows.
C31_FilterKeepsSession ==
  [][lastOp' = "filter" =>
       /\ UNCHANGED <<allMerchants, currentPage, lastOptimizedDropdown>>
       /\ UNCHANGED <<isOptimizing, dom, dropdowns, input>>
       /\ ~HasControls(controls', QueryDropdown)
       /\ \A k \in DOMAIN QueryOptions(QueryDropdown) :
            rows'[dropdowns[QueryDropdown].batch][k] = ShownStyle]_vars

\* A filtering evaluation has run on a recorded session that was on page 1.
C31_Witness ==
  /\ lastOp = "filter"
  /\ currentPage = 1
  /\ lastOptimizedDropdown # NoElement
  /\ Len(allMerchants) > pageSize
  /\ ControlsPresent = {}

\* An evaluation has nothing to evaluate: the widget is absent, hidden or
\* has no row.
NothingToEvaluate ==
  \/ QueryDropdown = NoElement
  \/ ~Displayed(QueryDropdown)
  \/ QueryOptions(QueryDropdown) = <<>>

\* C32: an evaluation started by an input timer that finds the widget
\* absent, hidden or without rows changes nothing: the captured rows, the
\* page, the widget handle, the latch, the rows' styles and the controls are
\* as before, and nothing is thrown.
C32_NothingToEvaluateNoOp ==
  [][(NothingToEvaluate /\ evalTimers' < evalTimers) =>
       /\ UNCHANGED <<allMerchants, currentPage, lastOptimizedDropdown>>
       /\ UNCHANGED <<isOptimizing, rows, controls, dom, dropdowns>>
       /\ lastOp' = "noop"]_vars

\* An evaluation has found a visible widget without rows while an earlier
\* session is still recorded.
C32_Witness ==
  /\ lastOp = "noop"
  /\ QueryDropdown # NoElement
  /\ Displayed(QueryDropdown)
  /\ QueryOptions(QueryDropdown) = <<>>
  /\ lastOptimizedDropdown = QueryDropdown
  /\ Len(allMerchants) > pageSize

\* What an evaluation leaves behind, unreachable objects dropped.
Left(s) ==
  [rows |-> CollectRows(s.rows, dom, dropdowns, s.am),
   controls |-> Collect(s.controls, dom),
   am |-> s.am, page |-> s.page, lod |-> s.lod, latch |-> s.latch]

\* The evaluation that follows the evaluation that left s.
Again(s) == optimizeDropdown([s EXCEPT !.threw = FALSE, !.mutated = FALSE])

\* C33: from every reachable state, two evaluations in a row leave the same
\* state as one.
C33_EvaluationIdempotent ==
  Left(Again(optimizeDropdown(Session))) = Left(optimizeDropdown(Session))

\* An evaluation has paginated a widget and rendered its controls, and
\* another evaluation is pending.
C33_Witness ==
  /\ lastOp = "paginate"
  /\ ControlsPresent # {}
  /\ Len(allMerchants) > pageSize
  /\ debounceTimer > 0
  /\ Left(optimizeDropdown(Session)) = Left(Session)

\* C34: the registry of release callbacks holds at most one entry, and only
\* for a controls surface that is in the page.
C34_OneRegistryEntry ==
  /\ Cardinality(paginationCleanup(controls)) <= 1
  /\ paginationCleanup(controls) \subseteq ControlsPresent

\* The three states of the session machine, read off the program's state.
MachineIdle ==
  /\ lastOptimizedDropdown = NoElement
  /\ allMerchants = <<>>
  /\ ControlsPresent = {}

MachineBrowsing ==
  /\ ~isUserFiltering
  /\ lastOptimizedDropdown # NoElement
  /\ VisibleCaptured = WindowOf(currentPage, Len(allMerchants))
  /\ (ControlsPresent # {} <=> Len(allMerchants) > pageSize)

MachineFiltering ==
  /\ isUserFiltering
  /\ allMerchants # <<>>
  /\ ControlsPresent = {}
  /\ \A k \in DOMAIN allMerchants : RowVisible(CapturedRow(k))

\* C35: every state that an evaluation, a page click or a teardown of the
\* extension leaves is one of Idle, Browsing and Filtering (no two of which
\* hold together).
C35_ThreeStates ==
  lastOp \in {"paginate", "filter", "page", "cleanup", "closed"}
    => (MachineIdle \/ MachineBrowsing \/ MachineFiltering)

\* The host and the user are quiet and the only pending timer is the change
\* watcher's.
OnlyWatcherPending == ~pollTimer /\ evalTimers = 0 /\ debounceTimer = 1

\* Running the change watcher's callback changes the child list of the page,
\* which starts its timer again, and leaves the state as it found it.
CallbackRepeats ==
  /\ debounced(Session).mutated
  /\ Left(debounced(Session)) = Left(Session)

\* C36: the extension's own insertions and removals of the controls do not
\* keep the change watcher running: there is no state in which the watcher's
\* timer is the only one pending and its callback restarts the timer while
\* leaving the state unchanged (from such a state the callback would run
\* every 50 ms for ever, host and user being quiet).
C36_NoSelfSustainingLoop == ~(OnlyWatcherPending /\ CallbackRepeats)

\* The session as a callback would find it with the latch clear.
Unlatched == [Session EXCEPT !.latch = FALSE]

\* C37: callbacks run to completion one after the other, so the re-entrancy
\* latch is false whenever a callback starts, and no evaluation is rejected
\* by it: a pending input timer and a pending watcher timer run the
\* evaluation they would run with the latch clear.
C37_NoRejection ==
  /\ ~isOptimizing
  /\ evalTimers > 0 => optimizeDropdown(Session) = optimizeDropdown(Unlatched)
  /\ debounceTimer > 0 => debounced(Session) = debounced(Unlatched)

\* An evaluation has rendered the controls, which started the watcher's
\* timer again, while an input timer is pending too.
C37_Witness ==
  /\ lastOp = "paginate"
  /\ ControlsPresent # {}
  /\ evalTimers > 0
  /\ debounceTimer > 0
  /\ ~isOptimizing

\* C38: after a teardown no row of a widget in the page is left hidden by
\* the extension: both suppression signals of every row are clear.
C38_NothingHiddenAfterTeardown ==
  lastOp = "cleanup" =>
    \A d \in Range(dom) : \A k \in DOMAIN rows[dropdowns[d].batch] :
      RowVisible(rows[dropdowns[d].batch][k])

\* C39: the listeners are attached at most once, by the call that first
\* finds the text-entry control: a step that initializes finds the control
\* there and counts no attempt, and once initialized the extension stays
\* initialized and counts no further attempt.
C39_AttachedOnce ==
  [][/\ isInitialized => (isInitialized' /\ checkCount' = checkCount)
     /\ (~isInitialized /\ isInitialized') =>
          (input.present /\ pollTimer /\ ~pollTimer' /\ checkCount' = checkCount)]_vars

\* A retry of the poll has found the control the host inserted after load,
\* and the extension has been used since.
C39_Witness ==
  /\ isInitialized
  /\ checkCount > 0
  /\ ~pollTimer
  /\ evalTimers > 0

====
